---- MODULE Spec2Model ----
(***************************************************************************)
(* Model of the scrape-events route (src/app/api/scrape-events/route.ts):  *)
(* the five-step pipeline run by GET inside ReadableStream.start, the      *)
(* progress/final records it enqueues on the response stream, its handling *)
(* of the renderer (puppeteer browser) and its error handler.              *)
(*                                                                         *)
(* Strings the code inspects (error messages, names, urls) are sequences   *)
(* of text chunks, so that String.includes / startsWith are computed.      *)
(* An optional value (T | undefined) is a sequence of length 0 or 1.       *)
(***************************************************************************)
EXTENDS Integers, Sequences, FiniteSets, TLC

VARIABLES
    pc,                 \* position of GET's start() callback
    methods,            \* methods[1..5]: the step list (route.ts:29-35)
    stream,             \* records enqueued on the controller, in order
    closed,             \* controller.close() has been called
    browser,            \* the local variable browser: "null" or "open"
    closeCalls,         \* number of browser.close() invocations so far
    error,              \* the value caught by the outer catch (route.ts:311)
    console,            \* console.error entries
    thrownBy,           \* which call threw into the outer catch
    tzOffset,           \* host timezone offset, minutes east of UTC
    containerAtWait,    \* container seen by page.waitForSelector
    rawEventData,       \* result of page.evaluate
    eventsByDate,       \* route.ts:226
    sortedEventsByDate, \* route.ts:294
    cpc,                \* position of the page's scrapeEvents (part_000:51)
    delivered,          \* length of the response body already read
    buffer,             \* the local variable buffer (part_000:76)
    ui,                 \* the component's state (part_000:43-49)
    handled,            \* the values of data the read loop has dispatched on
    clientConsole,      \* console.error entries of the page
    fragmentLimit       \* longest list the rendered page yields in this run

serverVars == <<pc, methods, stream, closed, browser, closeCalls, error, console,
                thrownBy, tzOffset, containerAtWait, rawEventData, eventsByDate,
                sortedEventsByDate>>

clientVars == <<cpc, delivered, buffer, ui, handled, clientConsole>>

vars == <<serverVars, clientVars, fragmentLimit>>

-----------------------------------------------------------------------------
(* Bounds *)

\* longest list of raw fragments page.evaluate returns
MaxFragments == 2

\* longest list of raw fragments in the runs that include the page
MaxPageFragments == 1

\* longest list of raw fragments in the runs that check progress to the end
MaxLiveFragments == 1

\* longest chunk, in text units, that one reader.read() returns
MaxChunk == 4

-----------------------------------------------------------------------------
(* Optional values and text *)

None == <<>>
Some(v) == <<v>>
IsSome(o) == Len(o) = 1
Get(o) == o[1]

\* String.prototype.includes on chunked text
Includes(text, pat) ==
    \E i \in 1..(Len(text) + 1) :
        /\ i + Len(pat) - 1 <= Len(text)
        /\ SubSeq(text, i, i + Len(pat) - 1) = pat

\* String.prototype.startsWith on chunked text
StartsWith(text, pat) ==
    /\ Len(pat) <= Len(text)
    /\ SubSeq(text, 1, Len(pat)) = pat

\* the substring tested at route.ts:329
NotAvailablePattern == <<"Puppeteer", " not", " available">>

\* message of the Error thrown at route.ts:74
ImportFailedMessage ==
    <<"Puppeteer", " not", " available",
      ". Using fallback method with simulated browser behavior.">>

\* error text of the fallback final record, route.ts:368
FallbackFinalMessage ==
    <<"Puppeteer", " not", " available",
      " in this environment. Sample data provided. To get real data, deploy this app to a server with Puppeteer support.">>

\* route.ts:142
EventBoxNotFound == <<"Event box not found">>

\* route.ts:325 and route.ts:372
UnknownError == <<"Unknown error">>
UnknownErrorOccurred == <<"Unknown error", " occurred">>

\* message of the TimeoutError of page.waitForSelector (timeout 15000)
SelectorTimeoutMessage ==
    <<"Waiting for selector ul.events_eventBox__nV6sM failed: 15000ms exceeded">>

\* A thrown value: an Error with a message, or a value that is no Error.
ErrorOf(msg) == [isError |-> TRUE, message |-> msg]
NonError == [isError |-> FALSE, message |-> <<>>]

\* What the renderer's calls may throw: Errors whose message does or does
\* not hold the text "Puppeteer not available", an Error with the empty
\* message, and a value that is not an Error.
Thrown ==
    { ErrorOf(<<"Navigation timeout of 30000 ms exceeded">>),
      ErrorOf(<<"Failed to launch the browser process: ", "Puppeteer", " not",
                " available", " on this platform">>),
      ErrorOf(<<>>),
      NonError }

-----------------------------------------------------------------------------
(* The event normalizer: route.ts:226-299 *)

\* Calendar dates are <<year, month, day>>, timestamps are
\* <<year, month, day, hour, minute, second>>; all model dates lie in May
\* 2025 so that a shift by one day stays inside the month.
LexLess(a, b) ==
    \E i \in 1..Len(a) :
        /\ i <= Len(b)
        /\ a[i] < b[i]
        /\ \A j \in 1..(i - 1) : a[j] = b[j]

\* new Date(event.date) for a date-only text in a non-ISO form: local
\* midnight of that day, as minutes since 2025-05-01T00:00Z; None when the
\* text does not parse (Invalid Date).
ParseDate(dateText, tz) ==
    IF dateText.parses
    THEN Some((dateText.day - 1) * 1440 - tz)
    ELSE None

\* date.toISOString().split("T")[0]: the UTC calendar date of the instant
ToISODate(instant) == <<2025, 5, 1 + (instant \div 1440)>>

\* timeMatch[k].replace(/\//g, "-").replace(" ", "T")
ToISOTime(ts) ==
    [dateSep |-> IF ts.dateSep = "/" THEN "-" ELSE ts.dateSep,
     dateTimeSep |-> IF ts.dateTimeSep = " " THEN "T" ELSE ts.dateTimeSep,
     fields |-> ts.fields]

IsSpace(chunk) == chunk = " "

RECURSIVE TrimStart(_)
TrimStart(text) ==
    IF text # <<>> /\ IsSpace(Head(text)) THEN TrimStart(Tail(text)) ELSE text

RECURSIVE TrimEnd(_)
TrimEnd(text) ==
    IF text # <<>> /\ IsSpace(text[Len(text)])
    THEN TrimEnd(SubSeq(text, 1, Len(text) - 1))
    ELSE text

Trim(text) == TrimEnd(TrimStart(text))

\* event.durationText.match(/Duration:\s*(.+)/), then route.ts:250.
\* The group needs one character at least; when only white space follows
\* the label the group is white space, which trim() empties.
ParseDuration(durationText) ==
    LET at == { i \in 1..Len(durationText) : durationText[i] = "Duration:" }
    IN  IF at = {}
        THEN <<"Unknown">>
        ELSE LET first == CHOOSE i \in at : \A j \in at : i <= j
                 rest == SubSeq(durationText, first + 1, Len(durationText))
             IN  IF rest = <<>> THEN <<"Unknown">> ELSE Trim(rest)

\* String.prototype.toLowerCase on the chunks of a name
LowerChunk(c) ==
    CASE c = "High" -> "high"
      [] c = "Roller" -> "roller"
      [] c = "Mega" -> "mega"
      [] c = "Heist" -> "heist"
      [] c = "Golden" -> "golden"
      [] c = "Blitz" -> "blitz"
      [] c = "Season" -> "season"
      [] c = "League" -> "league"
      [] c = "Finals" -> "finals"
      [] c = "Spin" -> "spin"
      [] OTHER -> c

ToLowerCase(text) == [i \in 1..Len(text) |-> LowerChunk(text[i])]

\* the chain with the blitz|golden test placed before the season|league test
EventTypeGoldenBeforeSeason(eventName) ==
    LET name == ToLowerCase(eventName)
        has(k) == Includes(name, <<k>>)
    IN  IF has("milestone") THEN "Milestone"
        ELSE IF has("partners") \/ has("jedi") THEN "Partner Event"
        ELSE IF has("bash") \/ has("builders") THEN "Tournament"
        ELSE IF has("roller") \/ has("high") THEN "Quick Event"
        ELSE IF has("heist") \/ has("mega") THEN "Tournament"
        ELSE IF has("chance") \/ has("lucky") THEN "Quick Event"
        ELSE IF has("blitz") \/ has("golden") THEN "Special Event"
        ELSE IF has("season") \/ has("league") THEN "Season"
        ELSE IF has("boom") \/ has("sticker") THEN "Special Event"
        ELSE "Event"

\* route.ts:253-263
EventType(eventName) ==
    LET name == ToLowerCase(eventName)
        has(k) == Includes(name, <<k>>)
    IN  IF has("milestone") THEN "Milestone"
        ELSE IF has("partners") \/ has("jedi") THEN "Partner Event"
        ELSE IF has("bash") \/ has("builders") THEN "Tournament"
        ELSE IF has("roller") \/ has("high") THEN "Quick Event"
        ELSE IF has("heist") \/ has("mega") THEN "Tournament"
        ELSE IF has("chance") \/ has("lucky") THEN "Quick Event"
        ELSE IF has("season") \/ has("league") THEN "Season"
        ELSE IF has("blitz") \/ has("golden") THEN "Special Event"
        ELSE IF has("boom") \/ has("sticker") THEN "Special Event"
        ELSE "Event"

\* route.ts:271
ImageUrl(imageUrl) ==
    IF StartsWith(imageUrl, <<"http">>)
    THEN imageUrl
    ELSE <<"https://monopolygo.game">> \o imageUrl

\* route.ts:265-272
MonopolyEvent(event, timeMatch) ==
    [name |-> event.name,
     startTime |-> ToISOTime(timeMatch[1]),
     endTime |-> ToISOTime(timeMatch[2]),
     duration |-> ParseDuration(event.durationText),
     type |-> EventType(event.name),
     imageUrl |-> ImageUrl(event.imageUrl)]

\* An EventsByDate object is the sequence of its [date, events] entries in
\* property (insertion) order.
HasKey(ebd, key) == \E i \in 1..Len(ebd) : ebd[i].date = key

EnsureKey(ebd, key) ==
    IF HasKey(ebd, key) THEN ebd ELSE Append(ebd, [date |-> key, events |-> <<>>])

PushEvent(ebd, key, ev) ==
    [i \in 1..Len(ebd) |->
        IF ebd[i].date = key
        THEN [ebd[i] EXCEPT !.events = Append(@, ev)]
        ELSE ebd[i]]

\* the callback without the try/catch effect: an Invalid Date is given the
\* key <<0, 0, 0>> and the event is stored under it
ParseOneKeepingInvalid(ebd, event, tz) ==
    LET date == ParseDate(event.date, tz)
        formattedDate == IF IsSome(date) THEN ToISODate(Get(date)) ELSE <<0, 0, 0>>
        withKey == EnsureKey(ebd, formattedDate)
    IN  IF ~IsSome(event.timeText)
        THEN [ebd |-> withKey, logged |-> FALSE]
        ELSE [ebd |-> PushEvent(withKey, formattedDate,
                                MonopolyEvent(event, Get(event.timeText))),
              logged |-> FALSE]

\* The body of the forEach callback, route.ts:229-277, on one raw event:
\* the new eventsByDate and whether the catch at route.ts:275 logged.
ParseOne(ebd, event, tz) ==
    LET date == ParseDate(event.date, tz)
    IN  IF ~IsSome(date)
        THEN [ebd |-> ebd, logged |-> TRUE]   \* toISOString throws RangeError
        ELSE LET formattedDate == ToISODate(Get(date))
                 withKey == EnsureKey(ebd, formattedDate)
             IN  IF ~IsSome(event.timeText)
                 THEN [ebd |-> withKey, logged |-> FALSE]
                 ELSE [ebd |-> PushEvent(withKey, formattedDate,
                                         MonopolyEvent(event, Get(event.timeText))),
                       logged |-> FALSE]

\* rawEventData.events.forEach(...), route.ts:228-278
RECURSIVE ParseAll(_, _, _, _)
ParseAll(ebd, log, events, tz) ==
    IF events = <<>>
    THEN [ebd |-> ebd, log |-> log]
    ELSE LET r == ParseOne(ebd, Head(events), tz)
         IN  ParseAll(r.ebd,
                      IF r.logged
                      THEN Append(log, [msg |-> "Error parsing event:",
                                        arg |-> ErrorOf(<<"Invalid time value">>)])
                      ELSE log,
                      Tail(events), tz)

\* Array.prototype.sort (stable), on [key, val] pairs ordered by key:
\* insertion of x after the elements whose key is not greater
RECURSIVE InsertSorted(_, _)
InsertSorted(sorted, x) ==
    IF sorted = <<>> THEN <<x>>
    ELSE IF LexLess(x.key, Head(sorted).key) THEN <<x>> \o sorted
    ELSE <<Head(sorted)>> \o InsertSorted(Tail(sorted), x)

RECURSIVE SortPairs(_)
SortPairs(s) ==
    IF s = <<>> THEN <<>>
    ELSE InsertSorted(SortPairs(SubSeq(s, 1, Len(s) - 1)), s[Len(s)])

\* eventsByDate[date].sort((a, b) => a.startTime.localeCompare(b.startTime)):
\* the two texts have the same layout, so they compare as their fields do
SortByStartTime(events) ==
    LET sorted == SortPairs([i \in 1..Len(events) |->
                                [key |-> events[i].startTime.fields, val |-> events[i]]])
    IN  [i \in 1..Len(sorted) |-> sorted[i].val]

\* Object.keys(eventsByDate).sort()
SortedKeys(ebd) ==
    LET sorted == SortPairs([i \in 1..Len(ebd) |-> [key |-> ebd[i].date, val |-> ebd[i].date]])
    IN  [i \in 1..Len(sorted) |-> sorted[i].val]

EventsOf(ebd, key) ==
    LET i == CHOOSE j \in 1..Len(ebd) : ebd[j].date = key
    IN  ebd[i].events

\* the output built in key order with each date's list left as parsed
SortEventsKeysOnly(ebd) ==
    LET keys == SortedKeys(ebd)
    IN  [i \in 1..Len(keys) |-> [date |-> keys[i], events |-> EventsOf(ebd, keys[i])]]

\* route.ts:294-299
SortEvents(ebd) ==
    LET keys == SortedKeys(ebd)
    IN  [i \in 1..Len(keys) |->
            [date |-> keys[i], events |-> SortByStartTime(EventsOf(ebd, keys[i]))]]

\* route.ts:333-362
sampleEvents ==
    LET T(f) == [dateSep |-> "-", dateTimeSep |-> "T", fields |-> f]
        icon(f) == <<"http", "s://api.monopolygo.game/storage/v1/object/public/event/icon/", f>>
    IN  << [date |-> <<2025, 5, 29>>,
            events |->
              << [name |-> <<"High", " ", "Roller">>,
                  startTime |-> T(<<2025, 5, 29, 1, 0, 0>>),
                  endTime |-> T(<<2025, 5, 29, 6, 59, 0>>),
                  duration |-> <<"5 Minutes">>,
                  type |-> "Quick Event",
                  imageUrl |-> icon("highroller.png")],
                 [name |-> <<"Mega", " ", "Heist">>,
                  startTime |-> T(<<2025, 5, 29, 7, 0, 0>>),
                  endTime |-> T(<<2025, 5, 29, 12, 59, 0>>),
                  duration |-> <<"45 Minutes">>,
                  type |-> "Tournament",
                  imageUrl |-> icon("heist.png")] >>],
           [date |-> <<2025, 5, 30>>,
            events |->
              << [name |-> <<"Golden", " ", "Blitz">>,
                  startTime |-> T(<<2025, 5, 30, 13, 0, 0>>),
                  endTime |-> T(<<2025, 5, 31, 12, 59, 59>>),
                  duration |-> <<"Whole Time">>,
                  type |-> "Special Event",
                  imageUrl |-> icon("goldsticker.png")] >>] >>

\* Text as the page shows it.
RawTime(f) == [dateSep |-> "/", dateTimeSep |-> " ", fields |-> f]

\* the duration text taken from the div's text as it stands, white space at
\* its ends included
DurationTextUntrimmed(divText) ==
    IF Includes(divText, <<"Duration:">>) THEN divText ELSE <<>>

\* route.ts:183 and 191-193: the trimmed text of a div is the duration text
\* when it contains the label; "" when no div does
DurationText(divText) ==
    LET text == Trim(divText)
    IN  IF Includes(text, <<"Duration:">>) THEN text ELSE <<>>

\* Event containers of the page (route.ts:164-196): the date of the section,
\* the image's title, the text of the div that holds the time range (if one
\* does), the text content of the div that holds the duration label, white
\* space included, and the image's src.
EventContainers ==
    { [date |-> [parses |-> TRUE, day |-> 29],
       name |-> <<"High", " ", "Roller">>,
       timeText |-> Some(<<RawTime(<<2025, 5, 29, 7, 0, 0>>),
                           RawTime(<<2025, 5, 29, 12, 59, 0>>)>>),
       durationDiv |-> <<" ", "Duration:", " ", "5 Minutes", " ">>,
       imageUrl |-> <<"/i/highroller.png">>],
      [date |-> [parses |-> TRUE, day |-> 29],
       name |-> <<"Mega", " ", "Heist">>,
       timeText |-> Some(<<RawTime(<<2025, 5, 29, 1, 0, 0>>),
                           RawTime(<<2025, 5, 30, 0, 59, 0>>)>>),
       durationDiv |-> <<>>,
       imageUrl |-> <<"http", "s://cdn.example/heist.png">>],
      [date |-> [parses |-> FALSE, day |-> 0],
       name |-> <<"Spin", " ", "the Wheel">>,
       timeText |-> Some(<<RawTime(<<2025, 5, 28, 1, 0, 0>>),
                           RawTime(<<2025, 5, 28, 2, 0, 0>>)>>),
       durationDiv |-> <<"Duration:", " ", "1 Hour">>,
       imageUrl |-> <<"/i/spin.png">>],
      [date |-> [parses |-> TRUE, day |-> 28],
       name |-> <<"Golden", " ", "Blitz">>,
       timeText |-> None,
       durationDiv |-> <<"Duration:", " ">>,
       imageUrl |-> <<"/i/blitz.png">>],
      [date |-> [parses |-> TRUE, day |-> 29],
       name |-> <<"Golden", " ", "Season">>,
       timeText |-> Some(<<RawTime(<<2025, 5, 29, 7, 0, 0>>),
                           RawTime(<<2025, 5, 29, 1, 0, 0>>)>>),
       durationDiv |-> <<"Duration:", " ">>,
       imageUrl |-> <<"/i/season.png">>] }

\* The raw fragments page.evaluate may return, route.ts:199-205
Fragments ==
    { [date |-> c.date, name |-> c.name, timeText |-> c.timeText,
       durationText |-> DurationText(c.durationDiv), imageUrl |-> c.imageUrl] :
      c \in EventContainers }

RECURSIVE SeqsUpTo(_, _)
SeqsUpTo(S, n) ==
    IF n = 0 THEN { <<>> }
    ELSE LET shorter == SeqsUpTo(S, n - 1)
         IN  shorter \cup { Append(s, x) : s \in shorter, x \in S }

\* the lists of raw events page.evaluate may return
FragmentLists == SeqsUpTo(Fragments, MaxFragments)

\* host timezones: west of, at and east of UTC (minutes)
TimeZones == { -300, 0, 330 }

-----------------------------------------------------------------------------
(* GET: the step list and the stream, route.ts:24-58 *)

MethodNames ==
    <<"Puppeteer Browser Automation", "Wait for Dynamic Content",
      "Extract Events from DOM", "Parse Event Details", "Format JSON Output">>

Steps == 1..Len(MethodNames)

\* route.ts:29-35
InitialMethods ==
    [k \in Steps |->
        [name |-> MethodNames[k], status |-> "pending", result |-> None,
         error |-> None, duration |-> None]]

\* the start of a step written to the entry after it
SetRunningOneAhead(m, k) ==
    IF k < Len(MethodNames)
    THEN [m EXCEPT ![k + 1].status = "running"]
    ELSE [m EXCEPT ![k].status = "running"]

\* methods[k].status = "running"
SetRunning(m, k) == [m EXCEPT ![k].status = "running"]

\* a step completion that stores duration and result but not the status
SetSuccessKeepingStatus(m, k, r) ==
    [m EXCEPT ![k].duration = Some("elapsed ms"),
              ![k].result = Some(r)]

\* methods[k].status = "success"; .duration = Date.now() - start; .result = r
SetSuccess(m, k, r) ==
    [m EXCEPT ![k].status = "success",
              ![k].duration = Some("elapsed ms"),
              ![k].result = Some(r)]

\* route.ts:37-45: JSON.stringify writes the step list as it is now
sendProgress(progress, updatedMethods) ==
    stream' = Append(stream, [type |-> "progress", progress |-> progress,
                              methods |-> updatedMethods])

\* sendFinal that leaves the stream open
sendFinalWithoutClose(success, events, successfulMethod, err) ==
    /\ stream' = Append(stream, [type |-> "final", success |-> success,
                                 events |-> events,
                                 successfulMethod |-> successfulMethod,
                                 error |-> err])
    /\ closed' = closed

\* route.ts:47-58: one record, then controller.close()
sendFinal(success, events, successfulMethod, err) ==
    /\ stream' = Append(stream, [type |-> "final", success |-> success,
                                 events |-> events,
                                 successfulMethod |-> successfulMethod,
                                 error |-> err])
    /\ closed' = TRUE

\* a throw inside the try block of route.ts:62-310
Throw(e, by) ==
    /\ error' = Some(e)
    /\ thrownBy' = by
    /\ pc' = "catch"

\* The component's state once scrapeEvents has run part_000:52-58 and
\* issued the fetch that invokes GET: the state the read loop starts from.
InitialUi ==
    [loading |-> TRUE, error |-> None, events |-> None, scrapingMethods |-> <<>>,
     progress |-> 0, successfulMethod |-> None, estimatedTime |-> "45"]

\* the invocation of GET by the page's fetch
Invoked ==
    /\ pc = "start"
    /\ methods = InitialMethods
    /\ stream = <<>>
    /\ closed = FALSE
    /\ browser = "null"
    /\ closeCalls = 0
    /\ error = None
    /\ console = <<>>
    /\ thrownBy = "none"
    /\ tzOffset \in TimeZones
    /\ containerAtWait = "unknown"
    /\ rawEventData = [error |-> None, events |-> <<>>, totalFound |-> 0]
    /\ eventsByDate = <<>>
    /\ sortedEventsByDate = <<>>
    /\ cpc = "reading"
    /\ delivered = 0
    /\ buffer = <<>>
    /\ ui = InitialUi
    /\ handled = <<>>
    /\ clientConsole = <<>>

Init ==
    /\ Invoked
    /\ fragmentLimit = MaxFragments

-----------------------------------------------------------------------------
(* Step 1, route.ts:63-97 *)

\* route.ts:64
Method1Running ==
    /\ pc = "start"
    /\ methods' = SetRunning(methods, 1)
    /\ pc' = "send10"
    /\ UNCHANGED <<stream, closed, browser, closeCalls, error, console, thrownBy,
                   tzOffset, containerAtWait, rawEventData, eventsByDate,
                   sortedEventsByDate>>

\* route.ts:65
Send10 ==
    /\ pc = "send10"
    /\ sendProgress(10, methods)
    /\ pc' = "import"
    /\ UNCHANGED <<methods, closed, browser, closeCalls, error, console, thrownBy,
                   tzOffset, containerAtWait, rawEventData, eventsByDate,
                   sortedEventsByDate>>

\* the import rethrowing the loader's own error instead of the fixed one
ImportPuppeteerRethrowing ==
    /\ pc = "import"
    /\ \/ /\ pc' = "launch"
          /\ UNCHANGED <<error, thrownBy>>
       \/ Throw(ErrorOf(<<"Cannot find module 'puppeteer'">>), "import")
    /\ UNCHANGED <<methods, stream, closed, browser, closeCalls, console,
                   tzOffset, containerAtWait, rawEventData, eventsByDate,
                   sortedEventsByDate>>

\* route.ts:70-75: the module loads, or the catch rethrows the fixed Error
ImportPuppeteer ==
    /\ pc = "import"
    /\ \/ /\ pc' = "launch"
          /\ UNCHANGED <<error, thrownBy>>
       \/ Throw(ErrorOf(ImportFailedMessage), "import")
    /\ UNCHANGED <<methods, stream, closed, browser, closeCalls, console,
                   tzOffset, containerAtWait, rawEventData, eventsByDate,
                   sortedEventsByDate>>

\* route.ts:78-91
Launch ==
    /\ pc = "launch"
    /\ \/ /\ browser' = "open"
          /\ pc' = "m1success"
          /\ UNCHANGED <<error, thrownBy>>
       \/ /\ \E e \in Thrown : Throw(e, "launch")
          /\ UNCHANGED browser
    /\ UNCHANGED <<methods, stream, closed, closeCalls, console,
                   tzOffset, containerAtWait, rawEventData, eventsByDate,
                   sortedEventsByDate>>

\* route.ts:93-95
Method1Success ==
    /\ pc = "m1success"
    /\ methods' = SetSuccess(methods, 1, [browserLaunched |-> TRUE])
    /\ pc' = "send25"
    /\ UNCHANGED <<stream, closed, browser, closeCalls, error, console, thrownBy,
                   tzOffset, containerAtWait, rawEventData, eventsByDate,
                   sortedEventsByDate>>

\* step 1 completing without its broadcast
Send25Skipped ==
    /\ pc = "send25"
    /\ pc' = "m2running"
    /\ UNCHANGED <<methods, stream, closed, browser, closeCalls, error, console,
                   thrownBy, tzOffset, containerAtWait, rawEventData, eventsByDate,
                   sortedEventsByDate>>

\* route.ts:97
Send25 ==
    /\ pc = "send25"
    /\ sendProgress(25, methods)
    /\ pc' = "m2running"
    /\ UNCHANGED <<methods, closed, browser, closeCalls, error, console, thrownBy,
                   tzOffset, containerAtWait, rawEventData, eventsByDate,
                   sortedEventsByDate>>

-----------------------------------------------------------------------------
(* Step 2, route.ts:99-133 *)

\* route.ts:100
Method2Running ==
    /\ pc = "m2running"
    /\ methods' = SetRunning(methods, 2)
    /\ pc' = "newPage"
    /\ UNCHANGED <<stream, closed, browser, closeCalls, error, console, thrownBy,
                   tzOffset, containerAtWait, rawEventData, eventsByDate,
                   sortedEventsByDate>>

\* an awaited call on the browser or the page: it returns or it throws
PageCall(here, next) ==
    /\ pc = here
    /\ \/ /\ pc' = next
          /\ UNCHANGED <<error, thrownBy>>
       \/ \E e \in Thrown : Throw(e, here)
    /\ UNCHANGED <<methods, stream, closed, browser, closeCalls, console,
                   tzOffset, containerAtWait, rawEventData, eventsByDate,
                   sortedEventsByDate>>

\* route.ts:103
NewPage == PageCall("newPage", "setViewport")
\* route.ts:106
SetViewport == PageCall("setViewport", "setUserAgent")
\* route.ts:107-109
SetUserAgent == PageCall("setUserAgent", "setExtraHTTPHeaders")
\* route.ts:112-115
SetExtraHTTPHeaders == PageCall("setExtraHTTPHeaders", "goto")
\* route.ts:118-121
Goto == PageCall("goto", "waitForSelector")

\* route.ts:124: resolves when the container is in the page, rejects with a
\* TimeoutError when it has not appeared after 15 s, or fails otherwise
WaitForSelector ==
    /\ pc = "waitForSelector"
    /\ \/ /\ containerAtWait' = "present"
          /\ pc' = "waitForTimeout"
          /\ UNCHANGED <<error, thrownBy>>
       \/ /\ containerAtWait' = "absent"
          /\ Throw(ErrorOf(SelectorTimeoutMessage), "waitForSelector")
       \/ /\ \E e \in Thrown : Throw(e, "waitForSelector")
          /\ UNCHANGED containerAtWait
    /\ UNCHANGED <<methods, stream, closed, browser, closeCalls, console,
                   tzOffset, rawEventData, eventsByDate, sortedEventsByDate>>

\* route.ts:127
WaitForTimeout == PageCall("waitForTimeout", "m2success")

\* route.ts:129-131
Method2Success ==
    /\ pc = "m2success"
    /\ methods' = SetSuccess(methods, 2, [pageLoaded |-> TRUE])
    /\ pc' = "send50"
    /\ UNCHANGED <<stream, closed, browser, closeCalls, error, console, thrownBy,
                   tzOffset, containerAtWait, rawEventData, eventsByDate,
                   sortedEventsByDate>>

\* route.ts:133
Send50 ==
    /\ pc = "send50"
    /\ sendProgress(50, methods)
    /\ pc' = "m3running"
    /\ UNCHANGED <<methods, closed, browser, closeCalls, error, console, thrownBy,
                   tzOffset, containerAtWait, rawEventData, eventsByDate,
                   sortedEventsByDate>>

-----------------------------------------------------------------------------
(* Step 3, route.ts:135-220 *)

\* route.ts:136
Method3Running ==
    /\ pc = "m3running"
    /\ methods' = SetRunning(methods, 3)
    /\ pc' = "evaluate"
    /\ UNCHANGED <<stream, closed, browser, closeCalls, error, console, thrownBy,
                   tzOffset, containerAtWait, rawEventData, eventsByDate,
                   sortedEventsByDate>>

\* route.ts:140-210: the callback returns { error } when the container is
\* not in the document and { events, totalFound } otherwise; the call may
\* also throw
Evaluate ==
    /\ pc = "evaluate"
    /\ \/ /\ \E events \in FragmentLists :
                /\ Len(events) <= fragmentLimit
                /\ rawEventData' = [error |-> None, events |-> events,
                                    totalFound |-> Len(events)]
          /\ pc' = "checkError"
          /\ UNCHANGED <<error, thrownBy>>
       \/ /\ rawEventData' = [error |-> Some(EventBoxNotFound), events |-> <<>>,
                              totalFound |-> 0]
          /\ pc' = "checkError"
          /\ UNCHANGED <<error, thrownBy>>
       \/ /\ \E e \in Thrown : Throw(e, "evaluate")
          /\ UNCHANGED rawEventData
    /\ UNCHANGED <<methods, stream, closed, browser, closeCalls, console,
                   tzOffset, containerAtWait, eventsByDate, sortedEventsByDate>>

\* the extraction result used without looking at its error field
CheckRawErrorIgnored ==
    /\ pc = "checkError"
    /\ pc' = "m3success"
    /\ UNCHANGED <<methods, stream, closed, browser, closeCalls, error, console,
                   thrownBy, tzOffset, containerAtWait, rawEventData, eventsByDate,
                   sortedEventsByDate>>

\* route.ts:212-214
CheckRawError ==
    /\ pc = "checkError"
    /\ IF IsSome(rawEventData.error)
       THEN Throw(ErrorOf(Get(rawEventData.error)), "extract")
       ELSE /\ pc' = "m3success"
            /\ UNCHANGED <<error, thrownBy>>
    /\ UNCHANGED <<methods, stream, closed, browser, closeCalls, console,
                   tzOffset, containerAtWait, rawEventData, eventsByDate,
                   sortedEventsByDate>>

\* route.ts:216-218
Method3Success ==
    /\ pc = "m3success"
    /\ methods' = SetSuccess(methods, 3, [eventsFound |-> rawEventData.totalFound])
    /\ pc' = "send75"
    /\ UNCHANGED <<stream, closed, browser, closeCalls, error, console, thrownBy,
                   tzOffset, containerAtWait, rawEventData, eventsByDate,
                   sortedEventsByDate>>

\* route.ts:220
Send75 ==
    /\ pc = "send75"
    /\ sendProgress(75, methods)
    /\ pc' = "m4running"
    /\ UNCHANGED <<methods, closed, browser, closeCalls, error, console, thrownBy,
                   tzOffset, containerAtWait, rawEventData, eventsByDate,
                   sortedEventsByDate>>

-----------------------------------------------------------------------------
(* Step 4, route.ts:222-287 *)

\* route.ts:223
Method4Running ==
    /\ pc = "m4running"
    /\ methods' = SetRunning(methods, 4)
    /\ pc' = "parse"
    /\ UNCHANGED <<stream, closed, browser, closeCalls, error, console, thrownBy,
                   tzOffset, containerAtWait, rawEventData, eventsByDate,
                   sortedEventsByDate>>

\* route.ts:226-278
ParseEvents ==
    /\ pc = "parse"
    /\ LET r == ParseAll(<<>>, console, rawEventData.events, tzOffset)
       IN  /\ eventsByDate' = r.ebd
           /\ console' = r.log
    /\ pc' = "m4success"
    /\ UNCHANGED <<methods, stream, closed, browser, closeCalls, error, thrownBy,
                   tzOffset, containerAtWait, rawEventData, sortedEventsByDate>>

\* Object.values(eventsByDate).flat().length
RECURSIVE TotalEvents(_)
TotalEvents(ebd) ==
    IF ebd = <<>> THEN 0 ELSE Len(Head(ebd).events) + TotalEvents(Tail(ebd))

\* route.ts:280-285
Method4Success ==
    /\ pc = "m4success"
    /\ methods' = SetSuccess(methods, 4,
                             [totalEvents |-> TotalEvents(eventsByDate),
                              totalDates |-> Len(eventsByDate)])
    /\ pc' = "send90"
    /\ UNCHANGED <<stream, closed, browser, closeCalls, error, console, thrownBy,
                   tzOffset, containerAtWait, rawEventData, eventsByDate,
                   sortedEventsByDate>>

\* route.ts:287
Send90 ==
    /\ pc = "send90"
    /\ sendProgress(90, methods)
    /\ pc' = "m5running"
    /\ UNCHANGED <<methods, closed, browser, closeCalls, error, console, thrownBy,
                   tzOffset, containerAtWait, rawEventData, eventsByDate,
                   sortedEventsByDate>>

-----------------------------------------------------------------------------
(* Step 5 and the end of the try block, route.ts:289-310 *)

\* route.ts:290
Method5Running ==
    /\ pc = "m5running"
    /\ methods' = SetRunning(methods, 5)
    /\ pc' = "sort"
    /\ UNCHANGED <<stream, closed, browser, closeCalls, error, console, thrownBy,
                   tzOffset, containerAtWait, rawEventData, eventsByDate,
                   sortedEventsByDate>>

\* route.ts:293-299
SortOutput ==
    /\ pc = "sort"
    /\ sortedEventsByDate' = SortEvents(eventsByDate)
    /\ pc' = "m5success"
    /\ UNCHANGED <<methods, stream, closed, browser, closeCalls, error, console,
                   thrownBy, tzOffset, containerAtWait, rawEventData, eventsByDate>>

\* route.ts:301-303
Method5Success ==
    /\ pc = "m5success"
    /\ methods' = SetSuccess(methods, 5, [formatted |-> TRUE])
    /\ pc' = "send100"
    /\ UNCHANGED <<stream, closed, browser, closeCalls, error, console, thrownBy,
                   tzOffset, containerAtWait, rawEventData, eventsByDate,
                   sortedEventsByDate>>

\* route.ts:305
Send100 ==
    /\ pc = "send100"
    /\ sendProgress(100, methods)
    /\ pc' = "close"
    /\ UNCHANGED <<methods, closed, browser, closeCalls, error, console, thrownBy,
                   tzOffset, containerAtWait, rawEventData, eventsByDate,
                   sortedEventsByDate>>

\* route.ts:308: await browser.close(), which returns or throws
CloseBrowser ==
    /\ pc = "close"
    /\ closeCalls' = closeCalls + 1
    /\ \/ /\ pc' = "final"
          /\ UNCHANGED <<error, thrownBy>>
       \/ \E e \in Thrown : Throw(e, "close")
    /\ UNCHANGED <<methods, stream, closed, browser, console,
                   tzOffset, containerAtWait, rawEventData, eventsByDate,
                   sortedEventsByDate>>

\* route.ts:310
SendFinalSuccess ==
    /\ pc = "final"
    /\ sendFinal(TRUE, Some(sortedEventsByDate), Some(MethodNames[1]), None)
    /\ pc' = "done"
    /\ UNCHANGED <<methods, browser, closeCalls, error, console, thrownBy,
                   tzOffset, containerAtWait, rawEventData, eventsByDate,
                   sortedEventsByDate>>

-----------------------------------------------------------------------------
(* The error handler, route.ts:311-374 *)

\* a handler that forgets the browser
CatchWithoutClose ==
    /\ pc = "catch"
    /\ browser # "null"
    /\ pc' = "markFailed"
    /\ UNCHANGED <<methods, stream, closed, browser, closeCalls, error, console,
                   thrownBy, tzOffset, containerAtWait, rawEventData, eventsByDate,
                   sortedEventsByDate>>

\* the handler closing the browser outside a try block: what close() throws
\* leaves start() and nothing more is sent
CatchCloseBrowserUnguarded ==
    /\ pc = "catch"
    /\ browser # "null"
    /\ closeCalls' = closeCalls + 1
    /\ \/ pc' = "markFailed"
       \/ pc' = "done"
    /\ UNCHANGED <<methods, stream, closed, browser, error, console, thrownBy,
                   tzOffset, containerAtWait, rawEventData, eventsByDate,
                   sortedEventsByDate>>

\* route.ts:313-319 with a browser: close() is called again; what it throws
\* is logged and dropped
CatchCloseBrowser ==
    /\ pc = "catch"
    /\ browser # "null"
    /\ closeCalls' = closeCalls + 1
    /\ \/ UNCHANGED console
       \/ \E e \in Thrown :
            console' = Append(console, [msg |-> "Error closing browser:", arg |-> e])
    /\ pc' = "markFailed"
    /\ UNCHANGED <<methods, stream, closed, browser, error, thrownBy,
                   tzOffset, containerAtWait, rawEventData, eventsByDate,
                   sortedEventsByDate>>

\* route.ts:313 with browser still null
CatchNoBrowser ==
    /\ pc = "catch"
    /\ browser = "null"
    /\ pc' = "markFailed"
    /\ UNCHANGED <<methods, stream, closed, browser, closeCalls, error, console,
                   thrownBy, tzOffset, containerAtWait, rawEventData, eventsByDate,
                   sortedEventsByDate>>

\* error instanceof Error ? error.message : fallbackText
MessageOf(e, fallbackText) == IF e.isError THEN e.message ELSE fallbackText

\* the handler marking the step failed without storing the message
MarkCurrentFailedWithoutError(m, e) ==
    LET running == { k \in Steps : m[k].status = "running" }
    IN  IF running = {}
        THEN m
        ELSE LET k == CHOOSE i \in running : \A j \in running : i <= j
             IN  [m EXCEPT ![k].status = "failed"]

\* route.ts:322-326: the first running step, if any, becomes failed
MarkCurrentFailed(m, e) ==
    LET running == { k \in Steps : m[k].status = "running" }
    IN  IF running = {}
        THEN m
        ELSE LET k == CHOOSE i \in running : \A j \in running : i <= j
             IN  [m EXCEPT ![k].status = "failed",
                           ![k].error = Some(MessageOf(e, UnknownError))]

MarkFailed ==
    /\ pc = "markFailed"
    /\ methods' = MarkCurrentFailed(methods, Get(error))
    /\ pc' = "branch"
    /\ UNCHANGED <<stream, closed, browser, closeCalls, error, console, thrownBy,
                   tzOffset, containerAtWait, rawEventData, eventsByDate,
                   sortedEventsByDate>>

\* the condition of route.ts:329
IsNotAvailable(e) == e.isError /\ Includes(e.message, NotAvailablePattern)

\* route.ts:330
FallbackProgress ==
    /\ pc = "branch"
    /\ IsNotAvailable(Get(error))
    /\ sendProgress(100, methods)
    /\ pc' = "fallbackFinal"
    /\ UNCHANGED <<methods, closed, browser, closeCalls, error, console, thrownBy,
                   tzOffset, containerAtWait, rawEventData, eventsByDate,
                   sortedEventsByDate>>

\* route.ts:364-369
FallbackFinal ==
    /\ pc = "fallbackFinal"
    /\ sendFinal(FALSE, Some(sampleEvents), None, Some(FallbackFinalMessage))
    /\ pc' = "done"
    /\ UNCHANGED <<methods, browser, closeCalls, error, console, thrownBy,
                   tzOffset, containerAtWait, rawEventData, eventsByDate,
                   sortedEventsByDate>>

\* route.ts:371
FailProgress ==
    /\ pc = "branch"
    /\ ~IsNotAvailable(Get(error))
    /\ sendProgress(100, methods)
    /\ pc' = "failFinal"
    /\ UNCHANGED <<methods, closed, browser, closeCalls, error, console, thrownBy,
                   tzOffset, containerAtWait, rawEventData, eventsByDate,
                   sortedEventsByDate>>

\* the failure record sent with the message of Errors only
FailFinalMessageOfErrorsOnly ==
    /\ pc = "failFinal"
    /\ sendFinal(FALSE, None, None,
                 IF Get(error).isError THEN Some(Get(error).message) ELSE None)
    /\ pc' = "done"
    /\ UNCHANGED <<methods, browser, closeCalls, error, console, thrownBy,
                   tzOffset, containerAtWait, rawEventData, eventsByDate,
                   sortedEventsByDate>>

\* route.ts:372
FailFinal ==
    /\ pc = "failFinal"
    /\ sendFinal(FALSE, None, None, Some(MessageOf(Get(error), UnknownErrorOccurred)))
    /\ pc' = "done"
    /\ UNCHANGED <<methods, browser, closeCalls, error, console, thrownBy,
                   tzOffset, containerAtWait, rawEventData, eventsByDate,
                   sortedEventsByDate>>

-----------------------------------------------------------------------------

(* The page: the read loop of scrapeEvents, src/unnamed/part_000:62-123 *)

\* The response body is the text of the enqueued records. The text of one
\* record (JSON.stringify(...) + "\n", route.ts:38-44 and 48-56) is two
\* units of JSON text followed by the newline; a chunk may end after any unit.
Newline == [part |-> 0, json |-> <<>>]
IsNewline(u) == u.part = 0
Encode(record) ==
    <<[part |-> 1, json |-> record], [part |-> 2, json |-> record], Newline>>

RECURSIVE Bytes(_)
Bytes(records) ==
    IF records = <<>> THEN <<>> ELSE Encode(Head(records)) \o Bytes(Tail(records))

\* buffer.split("\n"): the pieces between newlines, the last being what
\* follows the last newline
RECURSIVE SplitLines(_, _)
SplitLines(text, piece) ==
    IF text = <<>> THEN <<piece>>
    ELSE IF IsNewline(Head(text)) THEN <<piece>> \o SplitLines(Tail(text), <<>>)
    ELSE SplitLines(Tail(text), Append(piece, Head(text)))

\* JSON.parse(line): the value when the line is the whole text of one
\* record, None for a SyntaxError
JsonParse(line) ==
    IF /\ Len(line) = 2
       /\ line[1].part = 1
       /\ line[2].part = 2
       /\ line[1].json = line[2].json
    THEN Some(line[1].json)
    ELSE None

\* part_000:94-110
HandleData(u, data) ==
    IF data.type = "progress"
    THEN [u EXCEPT !.progress = data.progress,
                   !.scrapingMethods = data.methods,
                   !.estimatedTime = IF data.progress = 100 THEN "0" ELSE "estimate"]
    ELSE IF data.type = "final"
    THEN IF data.success /\ IsSome(data.events)
         THEN [u EXCEPT !.events = data.events,
                        !.successfulMethod = data.successfulMethod,
                        !.estimatedTime = "0"]
         ELSE [u EXCEPT !.error = IF IsSome(data.error) /\ Get(data.error) # <<>>
                                  THEN data.error
                                  ELSE Some(<<"Failed to scrape events">>),
                        !.estimatedTime = "0"]
    ELSE u

\* part_000:89-115: the for loop over the complete lines
RECURSIVE ProcessLines(_, _)
ProcessLines(st, lines) ==
    IF lines = <<>> THEN st
    ELSE LET line == Head(lines)
             data == JsonParse(line)
             next == IF line = <<>>
                     THEN st
                     ELSE IF IsSome(data)
                     THEN [ui |-> HandleData(st.ui, Get(data)),
                           handled |-> Append(st.handled, Get(data)),
                           log |-> st.log]
                     ELSE [ui |-> st.ui, handled |-> st.handled,
                           log |-> Append(st.log, "Failed to parse JSON:")]
         IN  ProcessLines(next, Tail(lines))

\* the loop body without the carried-over remainder: every piece of the
\* chunk is taken for a line and nothing is kept
ProcessChunkWithoutRemainder(buf, u, done, log, chunk) ==
    LET pieces == SplitLines(buf \o chunk, <<>>)
        st == ProcessLines([ui |-> u, handled |-> done, log |-> log], pieces)
    IN  [buffer |-> <<>>, ui |-> st.ui, handled |-> st.handled, log |-> st.log]

\* part_000:83-115 on one chunk: the new buffer, state, and log
ProcessChunk(buf, u, done, log, chunk) ==
    LET pieces == SplitLines(buf \o chunk, <<>>)
        lines == SubSeq(pieces, 1, Len(pieces) - 1)
        st == ProcessLines([ui |-> u, handled |-> done, log |-> log], lines)
    IN  [buffer |-> pieces[Len(pieces)], ui |-> st.ui, handled |-> st.handled,
         log |-> st.log]

\* part_000:79-115: reader.read() returns the next chunk of the body
ReadChunk ==
    /\ cpc = "reading"
    /\ \E n \in 1..MaxChunk :
          /\ delivered + n <= Len(Bytes(stream))
          /\ LET chunk == SubSeq(Bytes(stream), delivered + 1, delivered + n)
                 r == ProcessChunk(buffer, ui, handled, clientConsole, chunk)
             IN  /\ buffer' = r.buffer
                 /\ ui' = r.ui
                 /\ handled' = r.handled
                 /\ clientConsole' = r.log
          /\ delivered' = delivered + n
    /\ UNCHANGED cpc
    /\ UNCHANGED <<serverVars, fragmentLimit>>

\* part_000:79-81 and 120-122: the body is read to its end; the finally
\* block clears loading
ReadDone ==
    /\ cpc = "reading"
    /\ closed
    /\ delivered = Len(Bytes(stream))
    /\ cpc' = "finished"
    /\ ui' = [ui EXCEPT !.loading = FALSE]
    /\ UNCHANGED <<delivered, buffer, handled, clientConsole>>
    /\ UNCHANGED <<serverVars, fragmentLimit>>

\* part_000:52-63 with the component's state set to u: the fetch invokes
\* GET anew and the read loop starts on an empty buffer
BeginScrape(u) ==
    /\ ui' = u
    /\ cpc' = "reading"
    /\ delivered' = 0
    /\ buffer' = <<>>
    /\ handled' = <<>>
    /\ pc' = "start"
    /\ methods' = InitialMethods
    /\ stream' = <<>>
    /\ closed' = FALSE
    /\ browser' = "null"
    /\ closeCalls' = 0
    /\ error' = None
    /\ console' = <<>>
    /\ thrownBy' = "none"
    /\ containerAtWait' = "unknown"
    /\ rawEventData' = [error |-> None, events |-> <<>>, totalFound |-> 0]
    /\ eventsByDate' = <<>>
    /\ sortedEventsByDate' = <<>>
    /\ UNCHANGED <<tzOffset, clientConsole, fragmentLimit>>

\* a click that starts a scrape without setEvents(null)
StartScrapeKeepingEvents ==
    /\ ~ui.loading
    /\ BeginScrape([InitialUi EXCEPT !.events = ui.events])

\* part_000:194 and 51-63: the button is enabled while loading is false; a
\* click on it runs scrapeEvents again
StartScrape ==
    /\ ~ui.loading
    /\ BeginScrape(InitialUi)

-----------------------------------------------------------------------------

\* one step of GET
GetStep ==
    \/ Method1Running \/ Send10 \/ ImportPuppeteer \/ Launch \/ Method1Success
    \/ Send25
    \/ Method2Running \/ NewPage \/ SetViewport \/ SetUserAgent
    \/ SetExtraHTTPHeaders \/ Goto \/ WaitForSelector \/ WaitForTimeout
    \/ Method2Success \/ Send50
    \/ Method3Running \/ Evaluate \/ CheckRawError \/ Method3Success \/ Send75
    \/ Method4Running \/ ParseEvents \/ Method4Success \/ Send90
    \/ Method5Running \/ SortOutput \/ Method5Success \/ Send100
    \/ CloseBrowser \/ SendFinalSuccess
    \/ CatchCloseBrowser \/ CatchNoBrowser \/ MarkFailed
    \/ FallbackProgress \/ FallbackFinal \/ FailProgress \/ FailFinal

\* GET alone: the response body is not read
Next == GetStep /\ UNCHANGED <<clientVars, fragmentLimit>>

Spec == Init /\ [][Next]_vars

\* Every awaited call of the handler returns or throws in the end and the
\* code between two awaits runs to completion: the handler keeps taking
\* steps until it has none left.
LiveInit ==
    /\ Invoked
    /\ fragmentLimit = MaxLiveFragments

LiveSpec == LiveInit /\ [][Next]_vars /\ WF_vars(Next)

\* GET together with the page that reads its response body
PageInit ==
    /\ Invoked
    /\ fragmentLimit = MaxPageFragments

PageNext ==
    \/ Next
    \/ ReadChunk
    \/ ReadDone
    \/ StartScrape

PageSpec == PageInit /\ [][PageNext]_vars

-----------------------------------------------------------------------------
(* Vocabulary of the properties *)

FinalIdx == { i \in 1..Len(stream) : stream[i].type = "final" }
ProgressIdx == { i \in 1..Len(stream) : stream[i].type = "progress" }
HasFinal == FinalIdx # {}
FinalRecord == stream[CHOOSE i \in FinalIdx : \A j \in FinalIdx : j <= i]
HasProgress == ProgressIdx # {}
LastProgress == stream[CHOOSE i \in ProgressIdx : \A j \in ProgressIdx : j <= i]

StatusList(m) == [k \in Steps |-> m[k].status]
RunningIn(m) == { k \in Steps : m[k].status = "running" }
FailedIn(m) == { k \in Steps : m[k].status = "failed" }

\* the step during which a call is made
StepOfCall(by) ==
    CASE by \in {"import", "launch"} -> 1
      [] by \in {"newPage", "setViewport", "setUserAgent", "setExtraHTTPHeaders",
                 "goto", "waitForSelector", "waitForTimeout"} -> 2
      [] by \in {"evaluate", "extract"} -> 3
      [] OTHER -> 0

\* close() threw inside the error handler
CloseThrewInHandler ==
    \E i \in 1..Len(console) : console[i].msg = "Error closing browser:"

-----------------------------------------------------------------------------
(* C1 *)

\* C1: whatever the step outcomes, the stream holds at most one final
\* record, a final record is the last record, the stream is closed exactly
\* when the final record is in it (so nothing follows the close), and a
\* finished invocation has emitted its final record.
C1_OneFinalRecordEndsTheStream ==
    /\ Cardinality(FinalIdx) <= 1
    /\ FinalIdx \subseteq {Len(stream)}
    /\ closed <=> HasFinal
    /\ pc = "done" => Cardinality(FinalIdx) = 1

\* the invocation ended after close() threw on the success path and again
\* in the handler
C1_Witness ==
    /\ pc = "done"
    /\ thrownBy = "close"
    /\ CloseThrewInHandler
    /\ Cardinality(FinalIdx) = 1

-----------------------------------------------------------------------------
(* C2 *)

\* C2: once a step N has failed and the handler has broadcast, the step list
\* of the last progress record has steps before N success, step N failed
\* with an error string, and the steps after N pending.
C2_StepListAfterFailure ==
    (HasFinal /\ StepOfCall(thrownBy) # 0) =>
        LET n == StepOfCall(thrownBy)
            m == LastProgress.methods
        IN  /\ \A k \in Steps : k < n => m[k].status = "success"
            /\ m[n].status = "failed"
            /\ IsSome(m[n].error)
            /\ \A k \in Steps : k > n => m[k].status = "pending"

\* step 3 failed by a throw of page.evaluate and the final record is out
C2_Witness ==
    /\ HasFinal
    /\ thrownBy = "evaluate"
    /\ LastProgress.methods[3].status = "failed"

-----------------------------------------------------------------------------
(* C3 *)

\* the positions at which a step's work is under way: after it was marked
\* running and before it is marked success or failed
WorkPositions ==
    {"send10", "import", "launch", "m1success",
     "newPage", "setViewport", "setUserAgent", "setExtraHTTPHeaders", "goto",
     "waitForSelector", "waitForTimeout", "m2success",
     "evaluate", "checkError", "m3success",
     "parse", "m4success", "sort", "m5success"}

\* the positions between the start of step 1 and the success of step 5
NormalProgressPositions ==
    WorkPositions \cup {"send25", "m2running", "send50", "m3running",
                        "send75", "m4running", "send90", "m5running"}

\* C3 as stated: during normal progress exactly one step is running, and
\* every progress record below 100 shows exactly one running step.
C3_ExactlyOneRunningAlways ==
    /\ pc \in NormalProgressPositions => Cardinality(RunningIn(methods)) = 1
    /\ \A i \in ProgressIdx :
          stream[i].progress < 100 => Cardinality(RunningIn(stream[i].methods)) = 1

\* C3 amended: at most one step is running at any time and in any progress
\* record; exactly one is running while a step's work is under way; the
\* progress record 10 shows step 1 running, and the records 25, 50, 75 and
\* 90, sent between two steps, show no running step.
C3_AtMostOneRunning ==
    /\ Cardinality(RunningIn(methods)) <= 1
    /\ pc \in WorkPositions => Cardinality(RunningIn(methods)) = 1
    /\ \A i \in ProgressIdx :
          /\ Cardinality(RunningIn(stream[i].methods)) <= 1
          /\ stream[i].progress = 10 => RunningIn(stream[i].methods) = {1}
          /\ stream[i].progress \in {25, 50, 75, 90} => RunningIn(stream[i].methods) = {}

\* step 5 is at work after the record 90 was broadcast
C3_Witness ==
    /\ pc = "sort"
    /\ RunningIn(methods) = {5}
    /\ HasProgress
    /\ LastProgress.progress = 90

-----------------------------------------------------------------------------
(* C4 *)

\* the statuses of the last broadcast step list (all pending before the
\* first broadcast)
LastBroadcastStatus ==
    IF HasProgress THEN StatusList(LastProgress.methods) ELSE StatusList(InitialMethods)

\* the steps whose status differs from the one last broadcast
Unbroadcast == { k \in Steps : methods[k].status # LastBroadcastStatus[k] }

ProgressValues == {10, 25, 50, 75, 90, 100}

\* C4 as stated: no status transition happens while an earlier transition
\* is not yet broadcast, the finished invocation has broadcast its last
\* transition, every record carries the five steps and a value among 10,
\* 25, 50, 75, 90, 100.
C4_EveryTransitionBroadcast ==
    /\ [][methods' # methods => Unbroadcast = {}]_vars
    /\ [](pc = "done" => Unbroadcast = {})
    /\ [](\A i \in ProgressIdx :
            /\ stream[i].progress \in ProgressValues
            /\ DOMAIN stream[i].methods = Steps)

\* C4 amended: when a status transition happens, the only transitions not
\* yet broadcast are starts (to running) of steps 2..5; every transition to
\* success or failed and the start of step 1 are broadcast, with the full
\* list, before any further transition; the finished invocation has
\* broadcast the last statuses; progress values are among 10..100.
C4_CompletionsBroadcast ==
    /\ [][methods' # methods =>
            \A k \in Unbroadcast : k >= 2 /\ methods[k].status = "running"]_vars
    /\ [](pc = "done" => Unbroadcast = {})
    /\ [](\A i \in ProgressIdx :
            /\ stream[i].progress \in ProgressValues
            /\ DOMAIN stream[i].methods = Steps)

\* a whole successful run: the six checkpoints were broadcast in order
C4_Witness ==
    /\ pc = "done"
    /\ thrownBy = "none"
    /\ [i \in 1..(Len(stream) - 1) |-> stream[i].progress] = <<10, 25, 50, 75, 90, 100>>
    /\ RunningIn(LastProgress.methods) = {}

-----------------------------------------------------------------------------
(* C5 *)

\* C5: the final record is never emitted, nor about to be, with a browser
\* acquired on which close() was never invoked.
C5_AcquiredRendererClosedBeforeFinal ==
    (browser = "open" /\ (HasFinal \/ pc \in {"final", "fallbackFinal", "failFinal"}))
        => closeCalls >= 1

\* page.goto threw with the browser open and the final record is out
C5_Witness ==
    /\ HasFinal
    /\ browser = "open"
    /\ thrownBy = "goto"
    /\ closeCalls = 1

-----------------------------------------------------------------------------
(* C6 *)

\* C6: a final record with success=false carries events only when the
\* import of the rendering module failed; after any other failure, whatever
\* its message, the final record carries no events.
C6_FallbackOnlyWhenModuleUnavailable ==
    (HasFinal /\ ~FinalRecord.success) =>
        (IsSome(FinalRecord.events) <=> thrownBy = "import")

-----------------------------------------------------------------------------
(* C7 *)

\* C7: when the import of the rendering module fails, the final record has
\* success=false, the sample events (two date keys, three events), an error
\* text holding "Puppeteer not available", and no successfulMethod.
C7_ModuleUnavailableGivesSample ==
    (HasFinal /\ thrownBy = "import") =>
        /\ FinalRecord.success = FALSE
        /\ IsSome(FinalRecord.events)
        /\ [i \in 1..Len(Get(FinalRecord.events)) |-> Get(FinalRecord.events)[i].date]
              = << <<2025, 5, 29>>, <<2025, 5, 30>> >>
        /\ TotalEvents(Get(FinalRecord.events)) = 3
        /\ IsSome(FinalRecord.error)
        /\ Includes(Get(FinalRecord.error), NotAvailablePattern)
        /\ FinalRecord.successfulMethod = None

\* the invocation ended after the import failed
C7_Witness ==
    /\ pc = "done"
    /\ thrownBy = "import"
    /\ browser = "null"
    /\ HasFinal

-----------------------------------------------------------------------------
(* C8 *)

\* the container was not in the page when the selector wait of step 2 ran
\* out, or when the extraction of step 3 looked for it
ContainerAbsent == containerAtWait = "absent" \/ IsSome(rawEventData.error)

\* C8 as stated: whenever the container is absent, the final record has
\* success=false and no events, and the failed step is step 3, steps 1 and 2
\* being success.
C8_ContainerAbsentFailsStep3 ==
    (HasFinal /\ ContainerAbsent) =>
        /\ FinalRecord.success = FALSE
        /\ FinalRecord.events = None
        /\ StatusList(LastProgress.methods)
              = <<"success", "success", "failed", "pending", "pending">>

\* C8 amended: whenever the container is absent the final record has
\* success=false and no events; the failed step is step 3, with steps 1 and
\* 2 success, when the extraction finds the container absent, and it is
\* step 2, with step 1 success, when the selector wait of step 2 times out
\* because the container never appeared.
C8_ContainerAbsentFailsStep2Or3 ==
    /\ (HasFinal /\ ContainerAbsent) =>
          /\ FinalRecord.success = FALSE
          /\ FinalRecord.events = None
    /\ (HasFinal /\ IsSome(rawEventData.error)) =>
          StatusList(LastProgress.methods)
              = <<"success", "success", "failed", "pending", "pending">>
    /\ (HasFinal /\ containerAtWait = "absent") =>
          StatusList(LastProgress.methods)
              = <<"success", "failed", "pending", "pending", "pending">>

\* the extraction reported the container absent and the final record is out
C8_Witness ==
    /\ HasFinal
    /\ containerAtWait = "present"
    /\ rawEventData.error = Some(EventBoxNotFound)
    /\ thrownBy = "extract"

-----------------------------------------------------------------------------
(* C9 *)

\* C9: a final record with success=true carries events and no error; a
\* final record with success=false carries an error string.
C9_FinalRecordShape ==
    \A i \in FinalIdx :
        /\ stream[i].success => (IsSome(stream[i].events) /\ stream[i].error = None)
        /\ ~stream[i].success => IsSome(stream[i].error)

\* a failure record after a value that is no Error was thrown
C9_Witness ==
    /\ HasFinal
    /\ ~FinalRecord.success
    /\ FinalRecord.events = None
    /\ ~Get(error).isError
    /\ FinalRecord.error = Some(UnknownErrorOccurred)

-----------------------------------------------------------------------------
(* C10 *)

\* C10: when a step failed with E and close() then threw in the handler, the
\* failed step's error and the final record's error are those of E, and the
\* record progress=100 and the final record are still emitted.
C10_CloseFailureDoesNotMaskError ==
    (pc = "done" /\ StepOfCall(thrownBy) # 0 /\ CloseThrewInHandler) =>
        LET e == Get(error)
            n == StepOfCall(thrownBy)
        IN  /\ Len(stream) >= 2
            /\ stream[Len(stream)].type = "final"
            /\ stream[Len(stream) - 1].type = "progress"
            /\ stream[Len(stream) - 1].progress = 100
            /\ stream[Len(stream) - 1].methods[n].error = Some(MessageOf(e, UnknownError))
            /\ stream[Len(stream)].error = Some(MessageOf(e, UnknownErrorOccurred))

-----------------------------------------------------------------------------
(* C11 *)

\* C11: after a failure of a step that is not answered by the fallback,
\* whatever value was thrown, the error stored on the failed step in the
\* last progress record equals the error of the final record.
C11_StepErrorEqualsFinalError ==
    (HasFinal /\ StepOfCall(thrownBy) # 0 /\ FinalRecord.events = None) =>
        LastProgress.methods[StepOfCall(thrownBy)].error = FinalRecord.error

-----------------------------------------------------------------------------
(* C12 *)

\* the events of an EventsByDate, whatever their date
EventsIn(ebd) ==
    UNION { { ebd[i].events[j] : j \in 1..Len(ebd[i].events) } : i \in 1..Len(ebd) }

\* C12: no event of a final record has its startTime after its endTime.
C12_StartNotAfterEnd ==
    \A i \in FinalIdx :
        IsSome(stream[i].events) =>
            \A ev \in EventsIn(Get(stream[i].events)) :
                ~LexLess(ev.endTime.fields, ev.startTime.fields)

-----------------------------------------------------------------------------
(* C13 *)

\* a list of keys in ascending order
Ascending(keys) ==
    \A i \in 1..(Len(keys) - 1) : ~LexLess(keys[i + 1], keys[i])
StrictlyAscending(keys) ==
    \A i \in 1..(Len(keys) - 1) : LexLess(keys[i], keys[i + 1])

\* C13: in the events of every final record the date keys are in ascending
\* order (and distinct) and every date's events are in ascending order of
\* startTime.
C13_FinalEventsSorted ==
    \A i \in FinalIdx :
        IsSome(stream[i].events) =>
            LET ebd == Get(stream[i].events)
            IN  /\ StrictlyAscending([k \in 1..Len(ebd) |-> ebd[k].date])
                /\ \A k \in 1..Len(ebd) :
                      Ascending([j \in 1..Len(ebd[k].events) |->
                                    ebd[k].events[j].startTime.fields])

\* a success record whose events were extracted latest first, under two
\* keys met in descending order
C13_Witness ==
    /\ HasFinal
    /\ FinalRecord.success
    /\ Len(eventsByDate) = 2
    /\ LexLess(eventsByDate[2].date, eventsByDate[1].date)
    /\ sortedEventsByDate # eventsByDate

-----------------------------------------------------------------------------
(* C14 *)

DateParses(fragment) == fragment.date.parses

\* the extracted list holds a fragment whose date text does not parse
HasUnparseableDate ==
    \E i \in 1..Len(rawEventData.events) : ~DateParses(rawEventData.events[i])

\* C14: step 4 never fails; once it has run on a list holding a fragment
\* with an unparseable date, the events are those of the list without such
\* fragments (so the others are normalized and none of the output comes
\* from a dropped fragment), and a run that ends without a throw sends
\* success=true with exactly these events, sorted.
C14_UnparseableDateDropped ==
    LET kept == SelectSeq(rawEventData.events, DateParses)
        expected == ParseAll(<<>>, <<>>, kept, tzOffset).ebd
    IN  /\ methods[4].status # "failed"
        /\ (HasUnparseableDate /\ methods[4].status = "success") =>
              /\ eventsByDate = expected
              /\ \A ev \in EventsIn(eventsByDate) :
                    \E i \in 1..Len(rawEventData.events) :
                        /\ DateParses(rawEventData.events[i])
                        /\ rawEventData.events[i].name = ev.name
        /\ (HasUnparseableDate /\ HasFinal /\ thrownBy = "none") =>
              /\ FinalRecord.success
              /\ FinalRecord.events = Some(SortEvents(expected))

\* a success record for a list whose first fragment has an unparseable date
\* and whose second fragment was normalized
C14_Witness ==
    /\ HasFinal
    /\ FinalRecord.success
    /\ Len(rawEventData.events) = 2
    /\ ~DateParses(rawEventData.events[1])
    /\ TotalEvents(Get(FinalRecord.events)) = 1

-----------------------------------------------------------------------------
(* C15 *)

\* the rules in the enumerated order
TypeRules ==
    << [keywords |-> {"milestone"}, type |-> "Milestone"],
       [keywords |-> {"partners", "jedi"}, type |-> "Partner Event"],
       [keywords |-> {"bash", "builders"}, type |-> "Tournament"],
       [keywords |-> {"roller", "high"}, type |-> "Quick Event"],
       [keywords |-> {"heist", "mega"}, type |-> "Tournament"],
       [keywords |-> {"chance", "lucky"}, type |-> "Quick Event"],
       [keywords |-> {"season", "league"}, type |-> "Season"],
       [keywords |-> {"blitz", "golden"}, type |-> "Special Event"],
       [keywords |-> {"boom", "sticker"}, type |-> "Special Event"] >>

\* the rules one of whose keywords occurs in the lower-cased name
MatchingRules(eventName) ==
    { r \in 1..Len(TypeRules) :
        \E k \in TypeRules[r].keywords : Includes(ToLowerCase(eventName), <<k>>) }

TypeByFirstRule(eventName) ==
    IF MatchingRules(eventName) = {}
    THEN "Event"
    ELSE TypeRules[CHOOSE r \in MatchingRules(eventName) :
                      \A q \in MatchingRules(eventName) : r <= q].type

\* C15: every normalized event has the type of the first rule, in the
\* enumerated order, that has a keyword in its lower-cased name, and Event
\* when there is none; the four named examples get the stated types.
C15_TypeIsFirstMatchingRule ==
    /\ \A ev \in EventsIn(eventsByDate) \cup EventsIn(sortedEventsByDate) :
          ev.type = TypeByFirstRule(ev.name)
    /\ \A i \in FinalIdx :
          stream[i].success =>
              \A ev \in EventsIn(Get(stream[i].events)) : ev.type = TypeByFirstRule(ev.name)
    /\ EventType(<<"Mega", " ", "Heist">>) = "Tournament"
    /\ EventType(<<"Golden", " ", "Blitz">>) = "Special Event"
    /\ EventType(<<"Season", " ", "League", " ", "Finals">>) = "Season"
    /\ EventType(<<"Spin", " ", "the Wheel">>) = "Event"

\* a success record with an event whose name has keywords of two rules
C15_Witness ==
    /\ HasFinal
    /\ FinalRecord.success
    /\ \E ev \in EventsIn(Get(FinalRecord.events)) :
          /\ Cardinality(MatchingRules(ev.name)) = 2
          /\ ev.type = "Season"

-----------------------------------------------------------------------------
(* C16 *)

\* C16: every normalized event is stored under the calendar date that the
\* date text of its own fragment names, whatever the host timezone.
C16_KeyIsDateOfDateText ==
    methods[4].status = "success" =>
        \A k \in 1..Len(eventsByDate) :
            \A ev \in EventsIn(<<eventsByDate[k]>>) :
                \E i \in 1..Len(rawEventData.events) :
                    /\ DateParses(rawEventData.events[i])
                    /\ rawEventData.events[i].name = ev.name
                    /\ eventsByDate[k].date = <<2025, 5, rawEventData.events[i].date.day>>

-----------------------------------------------------------------------------
(* C20 *)

\* in a step list, a step that is no longer pending has only successful
\* steps before it
InSequence(m) ==
    \A k \in Steps :
        m[k].status # "pending" => \A j \in 1..(k - 1) : m[j].status = "success"

\* C20: in every state and in every broadcast step list, a step has a
\* status other than pending only if every step before it has status
\* success (so no step is started while an earlier one is pending, running
\* or failed).
C20_StepsInStrictSequence ==
    /\ InSequence(methods)
    /\ \A i \in ProgressIdx : InSequence(stream[i].methods)

\* the settle wait of step 2 threw: step 1 success, step 2 failed, the rest
\* never started
C20_Witness ==
    /\ HasFinal
    /\ thrownBy = "waitForTimeout"
    /\ StatusList(methods) = <<"success", "failed", "pending", "pending", "pending">>

-----------------------------------------------------------------------------
(* C18 *)

\* the number of records whose text, newline included, has been read
RecordsRead ==
    Cardinality({ p \in 1..delivered : IsNewline(Bytes(stream)[p]) })

\* C18: however the body is cut into chunks, the read loop has dispatched
\* on exactly the records read so far in full, each once and in the order
\* of the stream, no line failed to parse, and after the end of the body it
\* has dispatched on every record of the stream with nothing left buffered.
C18_RecordsHandledOnceInOrder ==
    /\ handled = SubSeq(stream, 1, RecordsRead)
    /\ clientConsole = <<>>
    /\ cpc = "finished" => (handled = stream /\ buffer = <<>>)

\* the server has ended; the page has handled some records and holds the
\* first half of the next one in its buffer
C18_Witness ==
    /\ closed
    /\ Len(handled) >= 2
    /\ Len(buffer) = 1
    /\ buffer[1].part = 1

-----------------------------------------------------------------------------
(* C19 *)

\* C19: once the page has handled a final record that carries events, its
\* stored events are those of the record.
C19_StoredEventsAreFinalEvents ==
    \A i \in 1..Len(handled) :
        (handled[i].type = "final" /\ IsSome(handled[i].events)) =>
            ui.events = handled[i].events

-----------------------------------------------------------------------------
(* C21 *)

\* the fragment's timeText matches the time-range pattern of route.ts:239
HasTimeRange(fragment) == IsSome(fragment.timeText)

\* the forEach of route.ts:228-278 has run on the extracted list
ParsedAlready ==
    pc \notin {"checkError", "m3success", "send75", "m4running", "parse"}

\* C21: once the fragments are parsed, the EventsByDate is the one the same
\* list gives with the fragments without a time range removed, and no date
\* key of it maps to an empty list.
C21_FragmentWithoutTimeLeavesNoTrace ==
    ParsedAlready =>
        /\ eventsByDate =
               ParseAll(<<>>, <<>>, SelectSeq(rawEventData.events, HasTimeRange),
                        tzOffset).ebd
        /\ \A i \in 1..Len(eventsByDate) : eventsByDate[i].events # <<>>

-----------------------------------------------------------------------------
(* C22 *)

Spaces(n) == [k \in 1..n |-> " "]

\* some text other than white space follows the label "Duration:"
HasLabelText(text) ==
    \E i \in 1..Len(text) :
        /\ text[i] = "Duration:"
        /\ \E j \in (i + 1)..Len(text) : ~IsSpace(text[j])

\* d is what follows the first "Duration:" of text, without the white space
\* at its two ends
IsTrimmedLabelOf(d, text) ==
    \E i \in 1..Len(text) :
        /\ text[i] = "Duration:"
        /\ \A j \in 1..(i - 1) : text[j] # "Duration:"
        /\ d # <<>>
        /\ ~IsSpace(d[1])
        /\ ~IsSpace(d[Len(d)])
        /\ \E lead, trail \in 0..Len(text) :
               SubSeq(text, i + 1, Len(text)) = Spaces(lead) \o d \o Spaces(trail)

\* C22: the duration of every normalized event is the trimmed text after
\* "Duration:" in the durationText of its fragment, it is "Unknown" when no
\* such text is there, and it is never the empty string.
C22_DurationIsLabelOrUnknown ==
    \A ev \in EventsIn(eventsByDate) :
        /\ ev.duration # <<>>
        /\ \E i \in 1..Len(rawEventData.events) :
               LET f == rawEventData.events[i]
               IN  /\ f.name = ev.name
                   /\ IF HasLabelText(f.durationText)
                      THEN IsTrimmedLabelOf(ev.duration, f.durationText)
                      ELSE ev.duration = <<"Unknown">>

\* parsed: an event whose container showed the label followed by white
\* space only, and one whose container showed a duration
C22_Witness ==
    /\ \E ev \in EventsIn(eventsByDate) :
           /\ ev.duration = <<"Unknown">>
           /\ \E i \in 1..Len(rawEventData.events) :
                  /\ rawEventData.events[i].name = ev.name
                  /\ rawEventData.events[i].durationText = <<"Duration:">>
    /\ \E ev \in EventsIn(eventsByDate) : ev.duration = <<"5 Minutes">>

-----------------------------------------------------------------------------
(* C23 *)

\* the awaited calls on the browser and the page, route.ts:78-308
RendererCalls ==
    {"launch", "newPage", "setViewport", "setUserAgent", "setExtraHTTPHeaders",
     "goto", "waitForSelector", "waitForTimeout", "evaluate", "close"}

\* the stream has ended in the normal way with a failure record as its last
EndedWithFailure ==
    /\ closed
    /\ HasFinal
    /\ FinalIdx = {Len(stream)}
    /\ FinalRecord.success = FALSE

\* C23: when calls that are awaited return or throw in the end, a renderer
\* call that throws in the try block, whichever it is, leads to a stream
\* closed after one final record with success = false.
C23_RendererFailureEndsInFailureRecord ==
    (thrownBy \in RendererCalls) ~> EndedWithFailure

\* the settle wait of step 2 threw, close() threw again in the handler, and
\* the stream has ended with a failure record
C23_Witness ==
    /\ thrownBy = "waitForTimeout"
    /\ CloseThrewInHandler
    /\ EndedWithFailure

-----------------------------------------------------------------------------
(* C24 *)

AllSuccess(m) == \A k \in Steps : m[k].status = "success"

\* C24: with the final record sent, a last broadcast step list of five
\* successes goes with success = true and events, and success = false goes
\* with a last broadcast step list of exactly one failed step.
C24_FinalRecordAgreesWithStepList ==
    (HasFinal /\ HasProgress) =>
        /\ AllSuccess(LastProgress.methods) =>
               (FinalRecord.success /\ IsSome(FinalRecord.events))
        /\ ~FinalRecord.success =>
               Cardinality(FailedIn(LastProgress.methods)) = 1

-----------------------------------------------------------------------------
(* C25 *)

\* C25: close() is called at most once, the record with progress 100 is
\* sent at most once, and the progress values of the progress records grow
\* strictly along the stream.
C25_CloseOnceProgressStrictlyIncreasing ==
    /\ closeCalls <= 1
    /\ Cardinality({ i \in ProgressIdx : stream[i].progress = 100 }) <= 1
    /\ \A i, j \in ProgressIdx : i < j => stream[i].progress < stream[j].progress

-----------------------------------------------------------------------------
(* C26 *)

\* the state of the page after a stream read to its end
Settled ==
    /\ ~ui.loading
    /\ ui.estimatedTime = "0"
    /\ IsSome(ui.events) # IsSome(ui.error)
    /\ IsSome(ui.events) <=> FinalRecord.success

\* what scrapeEvents clears before it fetches
Cleared ==
    /\ ui.events = None
    /\ ui.error = None
    /\ ui.progress = 0
    /\ ui.scrapingMethods = <<>>

\* a step that invokes GET
ScrapeStarts == pc # "start" /\ pc' = "start"

\* C26: whatever stream GET emits, the page that has read it to its end is
\* settled: loading false, estimatedTime 0, events set and error null after
\* a success record, error set and events null after any other; a scrape
\* starts only while loading is false, and from its start until its first
\* record is handled events, error, progress and the step list are cleared.
C26_PageSettlesAndRestartsCleared ==
    /\ [](cpc = "finished" => Settled)
    /\ []((cpc = "reading" /\ handled = <<>>) => Cleared)
    /\ [][ScrapeStarts => (~ui.loading /\ ui'.loading)]_vars

\* the page has read a failure record to the end, with the step list of an
\* earlier progress record still shown
C26_Witness ==
    /\ cpc = "finished"
    /\ Settled
    /\ IsSome(ui.error)
    /\ ui.progress = 100
    /\ FailedIn(ui.scrapingMethods) # {}

====
